---- MODULE Spec2Model ----
(***************************************************************************)
(* The treebrain task-orchestration engine: the Planner's task graph       *)
(* (src/treebrain/agents/planner.py) driven by the dispatch loop of        *)
(* Orchestrator.process_task (src/treebrain/core/orchestrator.py).         *)
(*                                                                         *)
(* A Task object is a heap cell task_objs[id]; task_queue and              *)
(* completed_tasks are Python lists of references, modelled as sequences   *)
(* of ids.  A description "Implement <area> for: <objective>" is the pair  *)
(* <<area, objective>>.                                                    *)
(*                                                                         *)
(* SpecExec follows one direct invocation of an agent's process_task       *)
(* (planner.py, librarian.py, implementation_agent.py, action_agent.py).   *)
(*                                                                         *)
(* SpecHistory and SpecHistorySerial follow the load-append-save of        *)
(* agent_history.json (src/treebrain/core/interfaces.py), SpecProject the  *)
(* ProjectState record, and SpecDecomposer the retry loop of               *)
(* TaskDecomposer.decompose_task (src/brain/llm/decomposer.py).            *)
(* SpecPlanner calls PlannerAgent.process_task and mark_task_complete      *)
(* directly, with any arguments.                                           *)
(***************************************************************************)
EXTENDS Integers, Sequences, FiniteSets, TLC

\* ---------------------------------------------------------------- bounds
MaxTasks == 4         \* Task objects constructed on one PlannerAgent
MaxResults == 7       \* executor invocations recorded in one call
Objectives == {"o1", "o2"}     \* task_description arguments of process_task
DagObjectives == {"o1"}

\* ------------------------------------------------------ program constants
max_retries == 3
None == 0
PLANNER == "planner"
IMPLEMENTATION == "implementation"
LIBRARIAN == "librarian"
SUBDIRS == <<"frontend", "backend">>

VARIABLES
    implementation_agents,  \* Orchestrator.implementation_agents (working areas, in order)
    task_objs,              \* heap of Task objects, id -> fields
    task_queue,             \* PlannerAgent.task_queue
    completed_tasks,        \* PlannerAgent.completed_tasks
    pc,                     \* position inside Orchestrator.process_task
    agent_idx,              \* index of the for loop over implementation_agents
    next_task,              \* local next_task of process_task (a reference or None)
    results,                \* local results of process_task
    planning_status,        \* planning_status.status of the current call
    result,                 \* the document returned by the last call
    executor,               \* class of the agent whose process_task is invoked directly
    current_task,           \* the TaskRequest of that invocation (ActionAgent.current_task)
    ex_pc,                  \* position inside that process_task
    calls,                  \* methods process_task has called, with what each returned
    exceptions,             \* exceptions raised during the invocation
    implementation_status,  \* local implementation_status of ActionAgent.process_task
    outcome,                \* the StatusUpdate the invocation returned
    history_file,           \* completed_tasks of the persisted history, per working directory
    invocations,            \* ImplementationAgent.process_task in progress, per caller
    agent_statuses,         \* ProjectState.agent_statuses
    event_log,              \* ProjectState.event_log
    dec_pc,                 \* position inside TaskDecomposer.decompose_task
    attempt,                \* its loop variable
    available_tools,        \* its argument
    response,               \* the last answer of the LLM
    analysis,               \* what it returned
    llm_calls,              \* how each self.llm.invoke of the call ended, in order
    mark_call               \* arguments of the last direct call of mark_task_complete

exec_vars == <<executor, current_task, ex_pc, calls, exceptions,
               implementation_status, outcome>>

hist_vars == <<history_file, invocations>>

proj_vars == <<agent_statuses, event_log>>

dec_vars == <<dec_pc, attempt, available_tools, response, analysis, llm_calls>>

plan_vars == <<mark_call>>

vars == <<implementation_agents, task_objs, task_queue, completed_tasks, pc,
          agent_idx, next_task, results, planning_status, result,
          executor, current_task, ex_pc, calls, exceptions,
          implementation_status, outcome, history_file, invocations,
          agent_statuses, event_log, dec_pc, attempt, available_tools, response,
          analysis, llm_calls, mark_call>>

\* ---------------------------------------------------------------- helpers
Range(s) == {s[i] : i \in 1..Len(s)}

RemoveAt(s, i) == SubSeq(s, 1, i - 1) \o SubSeq(s, i + 1, Len(s))

Description(area, objective) == <<area, objective>>

\* Task.__init__
NewTask(id, description, assigned_to, dependencies) ==
    [id |-> id, description |-> description, assigned_to |-> assigned_to,
     dependencies |-> dependencies, status |-> "pending", attempts |-> 0]

\* [t.description for t in self.completed_tasks]
CompletedDescriptions == {task_objs[c].description : c \in Range(completed_tasks)}

\* faulty variant: get_next_task without the dependency test
Ready_NoDependencies(t, agent_role) ==
    /\ task_objs[t].assigned_to = agent_role
    /\ task_objs[t].status = "pending"

\* the condition of the if in get_next_task
Ready(t, agent_role) ==
    /\ task_objs[t].assigned_to = agent_role
    /\ task_objs[t].status = "pending"
    /\ \A dep \in task_objs[t].dependencies : dep \in CompletedDescriptions

\* faulty variant: the scan keeps the last match instead of returning the first
RECURSIVE ScanQueue_Last(_, _)
ScanQueue_Last(i, agent_role) ==
    IF i > Len(task_queue) THEN None
    ELSE LET later == ScanQueue_Last(i + 1, agent_role) IN
         IF later # None THEN later
         ELSE IF Ready(task_queue[i], agent_role) THEN task_queue[i]
         ELSE None

\* faulty variant: a subtask that was never attempted goes first
ScanQueue_FreshFirst(i, agent_role) ==
    LET ready == {j \in i..Len(task_queue) : Ready(task_queue[j], agent_role)}
        fresh == {j \in ready : task_objs[task_queue[j]].attempts = 0}
        pick == IF fresh # {} THEN fresh ELSE ready
    IN  IF pick = {} THEN None
        ELSE task_queue[CHOOSE j \in pick : \A k \in pick : j <= k]

RECURSIVE ScanQueue(_, _)
ScanQueue(i, agent_role) ==
    IF i > Len(task_queue) THEN None
    ELSE IF Ready(task_queue[i], agent_role) THEN task_queue[i]
    ELSE ScanQueue(i + 1, agent_role)

\* PlannerAgent.get_next_task
get_next_task(agent_role) == ScanQueue(1, agent_role)

RECURSIVE FindDescription(_, _)
FindDescription(i, task_description) ==
    IF i > Len(task_queue) THEN 0
    ELSE IF task_objs[task_queue[i]].description = task_description THEN i
    ELSE FindDescription(i + 1, task_description)

\* faulty variant: a failure always freezes the subtask
StatusAfterFailure_NoRetry(attempts) == "failed"

\* faulty variant: the budget test off by one: `>` for `>=`
StatusAfterFailure_OffByOne(attempts) ==
    IF attempts > max_retries THEN "failed" ELSE "pending"

\* the failure branch of mark_task_complete: the status after the increment
StatusAfterFailure(attempts) ==
    IF attempts >= max_retries THEN "failed" ELSE "pending"

\* faulty variant: a completed subtask is put in front of completed_tasks
mark_task_complete_Prepend(task_description, success) ==
    LET i == FindDescription(1, task_description) IN
    IF i = 0
    THEN UNCHANGED <<task_objs, task_queue, completed_tasks>>
    ELSE LET t == task_queue[i] IN
         IF success
         THEN /\ task_objs' = [task_objs EXCEPT ![t].status = "completed"]
              /\ completed_tasks' = <<t>> \o completed_tasks
              /\ task_queue' = RemoveAt(task_queue, i)
         ELSE /\ task_objs' = [task_objs EXCEPT
                     ![t].attempts = @ + 1,
                     ![t].status = StatusAfterFailure(task_objs[t].attempts + 1)]
              /\ UNCHANGED <<task_queue, completed_tasks>>

RECURSIVE FindLastDescription(_, _)
FindLastDescription(i, task_description) ==
    IF i > Len(task_queue) THEN 0
    ELSE LET later == FindLastDescription(i + 1, task_description) IN
         IF later # 0 THEN later
         ELSE IF task_objs[task_queue[i]].description = task_description THEN i
         ELSE 0

\* faulty variant: the last queued task with the description is the one
\* completed or charged
mark_task_complete_LastMatch(task_description, success) ==
    LET i == FindLastDescription(1, task_description) IN
    IF i = 0
    THEN UNCHANGED <<task_objs, task_queue, completed_tasks>>
    ELSE LET t == task_queue[i] IN
         IF success
         THEN /\ task_objs' = [task_objs EXCEPT ![t].status = "completed"]
              /\ completed_tasks' = Append(completed_tasks, t)
              /\ task_queue' = RemoveAt(task_queue, i)
         ELSE /\ task_objs' = [task_objs EXCEPT
                     ![t].attempts = @ + 1,
                     ![t].status = StatusAfterFailure(task_objs[t].attempts + 1)]
              /\ UNCHANGED <<task_queue, completed_tasks>>

\* faulty variant: a completed subtask is not removed from task_queue
mark_task_complete_KeepQueued(task_description, success) ==
    LET i == FindDescription(1, task_description) IN
    IF i = 0
    THEN UNCHANGED <<task_objs, task_queue, completed_tasks>>
    ELSE LET t == task_queue[i] IN
         IF success
         THEN /\ task_objs' = [task_objs EXCEPT ![t].status = "completed"]
              /\ completed_tasks' = Append(completed_tasks, t)
              /\ UNCHANGED task_queue
         ELSE /\ task_objs' = [task_objs EXCEPT
                     ![t].attempts = @ + 1,
                     ![t].status = StatusAfterFailure(task_objs[t].attempts + 1)]
              /\ UNCHANGED <<task_queue, completed_tasks>>

\* PlannerAgent.mark_task_complete: the first queued task with the description
\* (whatever its status) is completed and moved, or charged one attempt.
mark_task_complete(task_description, success) ==
    LET i == FindDescription(1, task_description) IN
    IF i = 0
    THEN UNCHANGED <<task_objs, task_queue, completed_tasks>>
    ELSE LET t == task_queue[i] IN
         IF success
         THEN /\ task_objs' = [task_objs EXCEPT ![t].status = "completed"]
              /\ completed_tasks' = Append(completed_tasks, t)
              /\ task_queue' = RemoveAt(task_queue, i)
         ELSE /\ task_objs' = [task_objs EXCEPT
                     ![t].attempts = @ + 1,
                     ![t].status = StatusAfterFailure(task_objs[t].attempts + 1)]
              /\ UNCHANGED <<task_queue, completed_tasks>>

\* faulty variant: failed subtasks are not reported
get_project_status_FailedHidden ==
    [pending_tasks |-> Cardinality({i \in 1..Len(task_queue) :
                                      task_objs[task_queue[i]].status = "pending"}),
     completed_tasks |-> Len(completed_tasks),
     failed_tasks |-> 0]

\* PlannerAgent.get_project_status, the three counters
get_project_status ==
    [pending_tasks |-> Cardinality({i \in 1..Len(task_queue) :
                                      task_objs[task_queue[i]].status = "pending"}),
     completed_tasks |-> Len(completed_tasks),
     failed_tasks |-> Cardinality({i \in 1..Len(task_queue) :
                                     task_objs[task_queue[i]].status = "failed"})]

\* faulty variant: the backend subtask waits for the frontend subtask
decompose_task_Dependent(task_description) ==
    << [description |-> Description("frontend", task_description),
        assigned_to |-> IMPLEMENTATION, dependencies |-> {}],
       [description |-> Description("backend", task_description),
        assigned_to |-> IMPLEMENTATION,
        dependencies |-> {Description("frontend", task_description)}] >>

\* faulty variant: the two subtasks are emitted backend first
decompose_task_BackendFirst(task_description) ==
    << [description |-> Description("backend", task_description),
        assigned_to |-> IMPLEMENTATION, dependencies |-> {}],
       [description |-> Description("frontend", task_description),
        assigned_to |-> IMPLEMENTATION, dependencies |-> {}] >>

\* PlannerAgent.decompose_task: always the frontend and the backend task,
\* neither with dependencies (constructor arguments, in order)
decompose_task(task_description) ==
    << [description |-> Description("frontend", task_description),
        assigned_to |-> IMPLEMENTATION, dependencies |-> {}],
       [description |-> Description("backend", task_description),
        assigned_to |-> IMPLEMENTATION, dependencies |-> {}] >>

\* A decomposition collaborator that emits dependency edges: the same two
\* constructor calls with a dependencies argument (Task.__init__ accepts one).
PlanKinds == {"pair", "frontend_first", "backend_first", "single"}

decompose_dag(task_description, kind) ==
    LET f == Description("frontend", task_description)
        b == Description("backend", task_description)
        first == [description |-> f, assigned_to |-> IMPLEMENTATION,
                  dependencies |-> IF kind = "backend_first" THEN {b} ELSE {}]
        second == [description |-> b, assigned_to |-> IMPLEMENTATION,
                   dependencies |-> IF kind = "frontend_first" THEN {f} ELSE {}]
    IN  IF kind = "single" THEN <<first>> ELSE <<first, second>>

\* the heap after constructing the tasks of a decomposition
AllocTasks(subtasks) ==
    LET n == Len(task_queue) + Len(completed_tasks) IN
    [id \in 1..(n + Len(subtasks)) |->
        IF id <= n THEN task_objs[id]
        ELSE NewTask(id, subtasks[id - n].description,
                     subtasks[id - n].assigned_to,
                     subtasks[id - n].dependencies)]

NewIds(subtasks) ==
    LET n == Len(task_queue) + Len(completed_tasks) IN
    [k \in 1..Len(subtasks) |-> n + k]

\* the documents process_task returns
\* (results is absent from an error document and error from a success
\* document: <<>> and "" here)
SuccessDocument(rs) ==
    [status |-> "success", results |-> rs, error |-> "",
     project_status |-> get_project_status]

ErrorDocument(error_message) ==
    [status |-> "error", results |-> <<>>, error |-> error_message,
     project_status |-> get_project_status]

NoDocument ==
    [status |-> "none", results |-> <<>>, error |-> "",
     project_status |-> [pending_tasks |-> 0, completed_tasks |-> 0, failed_tasks |-> 0]]

\* StatusUpdate (interfaces.py): an Optional field is <<>> for None and
\* <<v>> for the value v; a message is the sequence of the pieces it is
\* formatted from
StatusUpdate(agent, status, output_files, error_message) ==
    [agent |-> agent, status |-> status, output_files |-> output_files,
     error_message |-> error_message]

NoOutcome == StatusUpdate("none", "none", <<>>, <<>>)

\* TaskRequest (interfaces.py): task_description is the set of the keywords
\* the agents look for that occur in the text
TaskRequest(task_description, required_context) ==
    [task_description |-> task_description, required_context |-> required_context]

NoTask == TaskRequest({}, <<>>)

\* the callers that can have an ImplementationAgent.process_task in progress
\* against the files of one project (the dispatch loop has one at a time)
Callers == {1, 2}

\* no process_task in progress for a caller
NoInvocation == [pc |-> "idle", dir |-> "", task |-> {}, history |-> <<>>]

\* an answer of the LLM: kind "raise" (llm.invoke raised), "text" (not JSON)
\* or "json"; `complete` says whether the JSON object has every required
\* field with the required type; a subtask is named by its position
LlmResponse(kind, complete, required_tools, complexity_score, subtasks) ==
    [kind |-> kind, complete |-> complete, required_tools |-> required_tools,
     complexity_score |-> complexity_score, subtasks |-> subtasks]

NoResponse == LlmResponse("none", FALSE, <<>>, 0, <<>>)

\* the value of `analysis` when decompose_task returned None or was not called
NoAnalysis ==
    [required_tools |-> <<>>, complexity_score |-> 0, subtasks |-> <<>>]

\* ------------------------------------------------------------------- Init
\* Orchestrator.__init__: one ImplementationAgent per existing subdirectory,
\* frontend before backend; PlannerAgent.__init__: both lists empty.
\* no direct call of mark_task_complete yet
NoCall == [task_description |-> <<>>, success |-> FALSE]

AgentConfigs ==
    { <<>>, <<SUBDIRS[1]>>, <<SUBDIRS[2]>>, <<SUBDIRS[1], SUBDIRS[2]>> }

Init ==
    /\ implementation_agents \in AgentConfigs
    /\ task_objs = <<>>
    /\ task_queue = <<>>
    /\ completed_tasks = <<>>
    /\ pc = "idle"
    /\ agent_idx = 1
    /\ next_task = None
    /\ results = <<>>
    /\ planning_status = "none"
    /\ result = NoDocument
    /\ executor = "none"
    /\ current_task = NoTask
    /\ ex_pc = "idle"
    /\ calls = <<>>
    /\ exceptions = <<>>
    /\ implementation_status = NoOutcome
    /\ outcome = NoOutcome
    /\ history_file = [d \in Range(SUBDIRS) |-> <<>>]
    /\ invocations = [p \in Callers |-> NoInvocation]
    /\ agent_statuses = <<>>
    /\ event_log = <<>>
    /\ dec_pc = "idle"
    /\ attempt = 0
    /\ available_tools = {}
    /\ response = NoResponse
    /\ analysis = NoAnalysis
    /\ llm_calls = <<>>
    /\ mark_call = NoCall

\* ---------------------------------------------------------------- actions
\* str(e) of the exception raised in the planner's try block
PlanningError == "planning error"

\* faulty variant: a call starts with the failed subtasks dropped from the
\* queue
PlannerProcessTask_DropFailed(subtasks, raised) ==
    IF raised
    THEN /\ planning_status' = "error"
         /\ UNCHANGED <<task_objs, task_queue>>
    ELSE /\ planning_status' = "success"
         /\ task_objs' = AllocTasks(subtasks)
         /\ task_queue' =
               SelectSeq(task_queue, LAMBDA t : task_objs[t].status # "failed")
               \o NewIds(subtasks)

\* faulty variant: the exception comes after the subtasks were appended
PlannerProcessTask_AppendThenRaise(subtasks, raised) ==
    /\ planning_status' = IF raised THEN "error" ELSE "success"
    /\ task_objs' = AllocTasks(subtasks)
    /\ task_queue' = task_queue \o NewIds(subtasks)

\* PlannerAgent.process_task: decompose, then append every subtask; an
\* exception in the try block gives an error status and appends nothing.
PlannerProcessTask(subtasks, raised) ==
    IF raised
    THEN /\ planning_status' = "error"
         /\ UNCHANGED <<task_objs, task_queue>>
    ELSE /\ planning_status' = "success"
         /\ task_objs' = AllocTasks(subtasks)
         /\ task_queue' = task_queue \o NewIds(subtasks)

\* Orchestrator.process_task up to the dispatch loop (lines 56-68)
StartRun(subtasks, raised) ==
    /\ pc \in {"idle", "returned"}
    /\ raised \/ Len(task_queue) + Len(completed_tasks) + Len(subtasks) <= MaxTasks
    /\ PlannerProcessTask(subtasks, raised)
    /\ results' = <<>>
    /\ next_task' = None
    /\ agent_idx' = 1
    /\ IF raised
       THEN /\ pc' = "returned"
            /\ result' = ErrorDocument(PlanningError)
       ELSE /\ pc' = "for"
            /\ result' = NoDocument
    /\ UNCHANGED <<implementation_agents, completed_tasks>>
    /\ UNCHANGED exec_vars
    /\ UNCHANGED hist_vars
    /\ UNCHANGED <<proj_vars, dec_vars, plan_vars>>

ProcessTask ==
    \E objective \in Objectives, raised \in BOOLEAN :
        StartRun(decompose_task(objective), raised)

ProcessTaskDag ==
    \E objective \in DagObjectives, kind \in PlanKinds, raised \in BOOLEAN :
        StartRun(decompose_dag(objective, kind), raised)

\* faulty variant: the loop does not wait for the invocation in flight; the
\* next executor's turn starts and get_next_task is called again
ForAgent_FanOut ==
    /\ pc \in {"for", "await"}
    /\ agent_idx + (IF pc = "await" THEN 1 ELSE 0) <= Len(implementation_agents)
    /\ LET t == get_next_task(IMPLEMENTATION) IN
       /\ next_task' = t
       /\ IF t # None
          THEN /\ Len(results) < MaxResults
               /\ pc' = "await"
               /\ agent_idx' = agent_idx + (IF pc = "await" THEN 1 ELSE 0)
          ELSE /\ agent_idx' = agent_idx + 1
               /\ pc' = "for"
    /\ UNCHANGED <<implementation_agents, task_objs, task_queue, completed_tasks,
                   results, planning_status, result>>
    /\ UNCHANGED exec_vars
    /\ UNCHANGED hist_vars
    /\ UNCHANGED <<proj_vars, dec_vars, plan_vars>>

\* one turn of `for agent in self.implementation_agents`: get_next_task and,
\* when a task came back, the start of agent.process_task (a call is followed
\* for at most MaxResults invocations)
ForAgent ==
    /\ pc = "for"
    /\ agent_idx <= Len(implementation_agents)
    /\ LET t == get_next_task(IMPLEMENTATION) IN
       /\ next_task' = t
       /\ IF t # None
          THEN /\ Len(results) < MaxResults
               /\ pc' = "await"
               /\ UNCHANGED agent_idx
          ELSE /\ agent_idx' = agent_idx + 1
               /\ UNCHANGED pc
    /\ UNCHANGED <<implementation_agents, task_objs, task_queue, completed_tasks,
                   results, planning_status, result>>
    /\ UNCHANGED exec_vars
    /\ UNCHANGED hist_vars
    /\ UNCHANGED <<proj_vars, dec_vars, plan_vars>>

ResultEntry(agent, task, status) ==
    [agent |-> agent, task |-> task, status |-> status]

\* faulty variant: a failed invocation leaves no entry in results
AgentReturns_SuccessOnly(status) ==
    /\ pc = "await"
    /\ results' = IF status = "success"
                  THEN Append(results,
                           ResultEntry(implementation_agents[agent_idx],
                                       task_objs[next_task].description, status))
                  ELSE results
    /\ mark_task_complete(task_objs[next_task].description, status = "success")
    /\ agent_idx' = agent_idx + 1
    /\ pc' = "for"
    /\ UNCHANGED <<implementation_agents, next_task, planning_status, result>>
    /\ UNCHANGED exec_vars
    /\ UNCHANGED hist_vars
    /\ UNCHANGED <<proj_vars, dec_vars, plan_vars>>

\* faulty variant: the same executor is asked again in the same pass
AgentReturns_NoAdvance(status) ==
    /\ pc = "await"
    /\ results' = Append(results,
            ResultEntry(implementation_agents[agent_idx],
                        task_objs[next_task].description, status))
    /\ mark_task_complete(task_objs[next_task].description, status = "success")
    /\ pc' = "for"
    /\ UNCHANGED <<implementation_agents, agent_idx, next_task, planning_status, result>>
    /\ UNCHANGED exec_vars
    /\ UNCHANGED hist_vars
    /\ UNCHANGED <<proj_vars, dec_vars, plan_vars>>

\* agent.process_task returns `status`; the entry is appended to results and
\* the planner is updated (lines 81-93)
AgentReturns(status) ==
    /\ pc = "await"
    /\ results' = Append(results,
            ResultEntry(implementation_agents[agent_idx],
                        task_objs[next_task].description, status))
    /\ mark_task_complete(task_objs[next_task].description, status = "success")
    /\ agent_idx' = agent_idx + 1
    /\ pc' = "for"
    /\ UNCHANGED <<implementation_agents, next_task, planning_status, result>>
    /\ UNCHANGED exec_vars
    /\ UNCHANGED hist_vars
    /\ UNCHANGED <<proj_vars, dec_vars, plan_vars>>

AwaitAgent == \E status \in {"success", "error"} : AgentReturns(status)

\* faulty variant: a failed subtask keeps the loop running too
AnyPending_OrFailed ==
    \E i \in 1..Len(task_queue) :
        task_objs[task_queue[i]].status \in {"pending", "failed"}

\* faulty variant: without an executor the loop ends at once
AnyPending_WithExecutors ==
    /\ Len(implementation_agents) > 0
    /\ \E i \in 1..Len(task_queue) : task_objs[task_queue[i]].status = "pending"

\* `if not any(t.status == "pending" ...): break`, and the return after it
AnyPending ==
    \E i \in 1..Len(task_queue) : task_objs[task_queue[i]].status = "pending"

\* faulty variant: a permanently failed subtask fails the run
RunStatus_ErrorOnFailed ==
    IF \E i \in 1..Len(task_queue) : task_objs[task_queue[i]].status = "failed"
    THEN "error" ELSE "success"

RunStatus == "success"

EndOfPass ==
    /\ pc = "for"
    /\ agent_idx > Len(implementation_agents)
    /\ IF AnyPending
       THEN /\ agent_idx' = 1
            /\ UNCHANGED <<pc, result>>
       ELSE /\ pc' = "returned"
            /\ result' = [SuccessDocument(results) EXCEPT !.status = RunStatus]
            /\ UNCHANGED agent_idx
    /\ UNCHANGED <<implementation_agents, task_objs, task_queue, completed_tasks,
                   next_task, results, planning_status>>
    /\ UNCHANGED exec_vars
    /\ UNCHANGED hist_vars
    /\ UNCHANGED <<proj_vars, dec_vars, plan_vars>>

Dispatch == ForAgent \/ AwaitAgent \/ EndOfPass

Next == ProcessTask \/ Dispatch

NextDag == ProcessTaskDag \/ Dispatch

Spec == Init /\ [][Next]_vars

SpecDag == Init /\ [][NextDag]_vars

\* The dispatch loop runs on its own once process_task was called; a further
\* call is up to the caller.
FairSpec == Spec /\ WF_vars(Dispatch)

FairSpecDag == SpecDag /\ WF_vars(Dispatch)

\* ------------------------------------------- the executors' process_task
\* A direct invocation of one agent's process_task.  PlannerAgent,
\* LibrarianAgent and ImplementationAgent run theirs without suspending;
\* ActionAgent awaits its four stage methods one after the other.

\* str(e) of the exceptions the environment (file system, JSON decoding, a
\* subclass) raises
ExceptionMessages == {"e1", "e2"}

\* task descriptions, by the keywords that occur in them
Descriptions ==
    { {}, {"get_directory_structure"}, {"read_file"},
      {"get_directory_structure", "read_file"},
      {"component", "page"}, {"api"} }

Contexts == { <<>>, <<"a.txt", "b.txt">> }

TaskRequests == {TaskRequest(d, c) : d \in Descriptions, c \in Contexts}

Call(name, returned) == [name |-> name, returned |-> returned]

Exc(where, message) == [where |-> where, message |-> message]

CallNames == [i \in 1..Len(calls) |-> calls[i].name]

\* handle_error of every agent class: StatusUpdate(role, "error", str(error))
handle_error(role, error) == StatusUpdate(role, "error", <<>>, error)

\* faulty variant: the exception leaves process_task
ExceptHandler_Reraise(role, error) ==
    [ex_pc |-> "raised", outcome |-> NoOutcome]

\* `except Exception as e: return await self.handle_error(e)`
ExceptHandler(role, error) ==
    [ex_pc |-> "returned", outcome |-> handle_error(role, error)]

\* PlannerAgent.process_task called with a request whose text is `objective`
InvokePlanner(objective, raised, e) ==
    /\ ex_pc \in {"idle", "returned"}
    /\ pc \in {"idle", "returned"}
    /\ raised \/ Len(task_queue) + Len(completed_tasks)
                    + Len(decompose_task(objective)) <= MaxTasks
    /\ PlannerProcessTask(decompose_task(objective), raised)
    /\ executor' = "PlannerAgent"
    /\ current_task' = TaskRequest({objective}, <<>>)
    /\ calls' = <<Call("decompose_task", NoOutcome)>>
    /\ exceptions' = IF raised THEN <<Exc("decompose_task", <<e>>)>> ELSE <<>>
    /\ implementation_status' = NoOutcome
    /\ IF raised
       THEN /\ ex_pc' = ExceptHandler(PLANNER, <<e>>).ex_pc
            /\ outcome' = ExceptHandler(PLANNER, <<e>>).outcome
       ELSE /\ ex_pc' = "returned"
            /\ outcome' = StatusUpdate(PLANNER, "success", <<>>, <<>>)
    /\ UNCHANGED hist_vars
    /\ UNCHANGED <<proj_vars, dec_vars, plan_vars>>
    /\ UNCHANGED <<implementation_agents, completed_tasks, pc, agent_idx,
                   next_task, results, result>>

\* LibrarianAgent.read_file: the exceptions raised for a file that is there
\* and readable ("ok"), not there ("missing"), or fails in open/read
\* ("unreadable"); the last one is the one that leaves read_file
read_file(file_path, file_state, e) ==
    LET wrap(m) == <<"Error reading file ", file_path, ": ">> \o m IN
    IF file_state = "ok" THEN <<>>
    ELSE IF file_state = "missing"
    THEN << Exc("read_file", <<"File not found: ", file_path>>),
            Exc("read_file", wrap(<<"File not found: ", file_path>>)) >>
    ELSE << Exc("read_file", <<e>>), Exc("read_file", wrap(<<e>>)) >>

\* faulty variant: a description of neither kind is answered with success
LibrarianProcessTask_UnknownSucceeds(task, file_state, e) ==
    IF "get_directory_structure" \in task.task_description
    THEN [calls |-> <<Call("get_directory_structure", NoOutcome)>>,
          exceptions |-> <<>>, ex_pc |-> "returned",
          outcome |-> StatusUpdate(LIBRARIAN, "success", <<>>, <<>>)]
    ELSE IF "read_file" \in task.task_description
    THEN IF task.required_context = <<>>
         THEN [calls |-> <<>>, exceptions |-> <<>>, ex_pc |-> "returned",
               outcome |-> StatusUpdate(LIBRARIAN, "error", <<>>,
                                        <<"No file path provided">>)]
         ELSE LET file_path == task.required_context[1]
                  excs == read_file(file_path, file_state, e)
              IN  IF excs = <<>>
                  THEN [calls |-> <<Call("read_file", NoOutcome)>>,
                        exceptions |-> <<>>, ex_pc |-> "returned",
                        outcome |-> StatusUpdate(LIBRARIAN, "success",
                                                 <<(<<file_path>>)>>, <<>>)]
                  ELSE [calls |-> <<Call("read_file", NoOutcome)>>,
                        exceptions |-> excs,
                        ex_pc |-> ExceptHandler(LIBRARIAN, excs[Len(excs)].message).ex_pc,
                        outcome |-> ExceptHandler(LIBRARIAN, excs[Len(excs)].message).outcome]
    ELSE [calls |-> <<>>, exceptions |-> <<>>, ex_pc |-> "returned",
          outcome |-> StatusUpdate(LIBRARIAN, "success", <<>>, <<>>)]

\* LibrarianAgent.process_task
LibrarianProcessTask(task, file_state, e) ==
    IF "get_directory_structure" \in task.task_description
    THEN [calls |-> <<Call("get_directory_structure", NoOutcome)>>,
          exceptions |-> <<>>, ex_pc |-> "returned",
          outcome |-> StatusUpdate(LIBRARIAN, "success", <<>>, <<>>)]
    ELSE IF "read_file" \in task.task_description
    THEN IF task.required_context = <<>>
         THEN [calls |-> <<>>, exceptions |-> <<>>, ex_pc |-> "returned",
               outcome |-> StatusUpdate(LIBRARIAN, "error", <<>>,
                                        <<"No file path provided">>)]
         ELSE LET file_path == task.required_context[1]
                  excs == read_file(file_path, file_state, e)
              IN  IF excs = <<>>
                  THEN [calls |-> <<Call("read_file", NoOutcome)>>,
                        exceptions |-> <<>>, ex_pc |-> "returned",
                        outcome |-> StatusUpdate(LIBRARIAN, "success",
                                                 <<(<<file_path>>)>>, <<>>)]
                  ELSE [calls |-> <<Call("read_file", NoOutcome)>>,
                        exceptions |-> excs,
                        ex_pc |-> ExceptHandler(LIBRARIAN, excs[Len(excs)].message).ex_pc,
                        outcome |-> ExceptHandler(LIBRARIAN, excs[Len(excs)].message).outcome]
    ELSE [calls |-> <<>>, exceptions |-> <<>>, ex_pc |-> "returned",
          outcome |-> StatusUpdate(LIBRARIAN, "error", <<>>,
                          <<"Unknown task type: ", task.task_description>>)]

FileStates == {"ok", "missing", "unreadable"}

InvokeLibrarian(task, file_state, e) ==
    /\ ex_pc \in {"idle", "returned"}
    /\ executor' = "LibrarianAgent"
    /\ current_task' = task
    /\ calls' = LibrarianProcessTask(task, file_state, e).calls
    /\ exceptions' = LibrarianProcessTask(task, file_state, e).exceptions
    /\ ex_pc' = LibrarianProcessTask(task, file_state, e).ex_pc
    /\ outcome' = LibrarianProcessTask(task, file_state, e).outcome
    /\ implementation_status' = NoOutcome
    /\ UNCHANGED hist_vars
    /\ UNCHANGED <<proj_vars, dec_vars, plan_vars>>
    /\ UNCHANGED <<implementation_agents, task_objs, task_queue, completed_tasks,
                   pc, agent_idx, next_task, results, planning_status, result>>

\* ImplementationAgent._mock_implementation
mock_implementation(base_path, task_type) ==
    IF base_path = "frontend"
    THEN IF "component" \in task_type
         THEN <<"frontend/src/components/NewComponent.tsx">>
         ELSE IF "page" \in task_type
         THEN <<"frontend/src/pages/NewPage.tsx">>
         ELSE <<>>
    ELSE IF "api" \in task_type
         THEN <<"backend/src/api/new_endpoint.py",
                "backend/tests/api/test_new_endpoint.py">>
         ELSE IF "model" \in task_type
         THEN <<"backend/src/models/new_model.py">>
         ELSE <<>>

\* faulty variant: the body is the four-stage pipeline
ImplementationSteps_FourStages ==
    <<"gather_context", "validate_requirements", "implement_task", "run_tests">>

\* what ImplementationAgent.process_task calls, in order
ImplementationSteps ==
    <<"load_context", "_prepare_task_context", "_mock_implementation",
      "_update_history">>

\* the calls that can raise: load_context (json.load) and _update_history
\* (save_context)
ImplementationFaults == {"none", "load_context", "_update_history"}

\* ImplementationAgent.process_task
ImplementationProcessTask(base_path, task, fail_at, e) ==
    LET output_files == mock_implementation(base_path, task.task_description)
        reached == IF fail_at = "load_context" THEN 1 ELSE Len(ImplementationSteps)
    IN  [calls |-> [i \in 1..reached |-> Call(ImplementationSteps[i], NoOutcome)],
         exceptions |-> IF fail_at = "none" THEN <<>> ELSE <<Exc(fail_at, <<e>>)>>,
         ex_pc |-> IF fail_at = "none" THEN "returned"
                   ELSE ExceptHandler(IMPLEMENTATION, <<e>>).ex_pc,
         outcome |-> IF fail_at = "none"
                     THEN StatusUpdate(IMPLEMENTATION, "success",
                                       <<output_files>>, <<>>)
                     ELSE ExceptHandler(IMPLEMENTATION, <<e>>).outcome]

\* faulty variant: the executor books its own success in the planner
InvokeImplementation_WritesGraph(agent, task, fail_at, e) ==
    /\ ex_pc \in {"idle", "returned"}
    /\ agent \in 1..Len(implementation_agents)
    /\ executor' = "ImplementationAgent"
    /\ current_task' = task
    /\ LET r == ImplementationProcessTask(implementation_agents[agent], task,
                                          fail_at, e)
       IN  /\ calls' = r.calls
           /\ exceptions' = r.exceptions
           /\ ex_pc' = r.ex_pc
           /\ outcome' = r.outcome
           /\ IF r.outcome.status = "success" /\ task_queue # <<>>
              THEN /\ task_objs' = [task_objs EXCEPT ![Head(task_queue)].status = "completed"]
                   /\ task_queue' = Tail(task_queue)
                   /\ completed_tasks' = Append(completed_tasks, Head(task_queue))
              ELSE UNCHANGED <<task_objs, task_queue, completed_tasks>>
    /\ implementation_status' = NoOutcome
    /\ UNCHANGED hist_vars
    /\ UNCHANGED <<proj_vars, dec_vars, plan_vars>>
    /\ UNCHANGED <<implementation_agents, pc, agent_idx, next_task, results,
                   planning_status, result>>

InvokeImplementation(agent, task, fail_at, e) ==
    /\ ex_pc \in {"idle", "returned"}
    /\ agent \in 1..Len(implementation_agents)
    /\ executor' = "ImplementationAgent"
    /\ current_task' = task
    /\ LET r == ImplementationProcessTask(implementation_agents[agent], task,
                                          fail_at, e)
       IN  /\ calls' = r.calls
           /\ exceptions' = r.exceptions
           /\ ex_pc' = r.ex_pc
           /\ outcome' = r.outcome
    /\ implementation_status' = NoOutcome
    /\ UNCHANGED hist_vars
    /\ UNCHANGED <<proj_vars, dec_vars, plan_vars>>
    /\ UNCHANGED <<implementation_agents, task_objs, task_queue, completed_tasks,
                   pc, agent_idx, next_task, results, planning_status, result>>

\* the stage methods of ActionAgent, in the order process_task awaits them
Stages ==
    <<"gather_context", "validate_requirements", "implement_task", "run_tests">>

StageIndex(stage) == CHOOSE i \in 1..Len(Stages) : Stages[i] = stage

\* the message prefix of the error outcome a stage builds in its own
\* `except` (implement_task is abstract: the prefix of FrontendAgent's)
StagePrefix(stage) ==
    CASE stage = "gather_context" -> "Failed to gather context: "
      [] stage = "validate_requirements" -> "Requirements validation failed: "
      [] stage = "implement_task" -> "Frontend implementation failed: "
      [] stage = "run_tests" -> "Tests failed: "

\* output_files of implement_task (FrontendAgent's)
implement_task_files(task_name) ==
    IF "component" \in task_name THEN <<"src/components/NewComponent.tsx">>
    ELSE IF "page" \in task_name THEN <<"src/pages/NewPage.tsx">>
    ELSE IF "style" \in task_name THEN <<"src/styles/new-styles.css">>
    ELSE <<>>

\* what can happen in a stage: it returns success, it catches an exception
\* and returns its error outcome, or (implement_task of a subclass without a
\* try block) the exception leaves the stage
Behaviours(stage) ==
    IF stage = "implement_task" THEN {"success", "caught", "escapes"}
    ELSE {"success", "caught"}

\* the StatusUpdate a stage returns
StageReturns(stage, behaviour, e) ==
    IF behaviour = "success"
    THEN StatusUpdate(IMPLEMENTATION, "success",
                      IF stage = "implement_task"
                      THEN <<implement_task_files(current_task.task_description)>>
                      ELSE <<>>,
                      <<>>)
    ELSE StatusUpdate(IMPLEMENTATION, "error", <<>>, <<StagePrefix(stage), e>>)

\* faulty variant: the files are taken from the outcome of run_tests
FinalOutcome_TestFiles(impl_status, test_status) ==
    StatusUpdate(IMPLEMENTATION, "success", test_status.output_files, <<>>)

\* the StatusUpdate at the end of ActionAgent.process_task
FinalOutcome(impl_status, test_status) ==
    StatusUpdate(IMPLEMENTATION, "success", impl_status.output_files, <<>>)

\* ActionAgent.process_task up to its first await
InvokeAction(task) ==
    /\ ex_pc \in {"idle", "returned"}
    /\ executor' = "ActionAgent"
    /\ current_task' = task
    /\ calls' = <<>>
    /\ exceptions' = <<>>
    /\ implementation_status' = NoOutcome
    /\ outcome' = NoOutcome
    /\ ex_pc' = Stages[1]
    /\ UNCHANGED hist_vars
    /\ UNCHANGED <<proj_vars, dec_vars, plan_vars>>
    /\ UNCHANGED <<implementation_agents, task_objs, task_queue, completed_tasks,
                   pc, agent_idx, next_task, results, planning_status, result>>

\* one awaited stage and the test of its status that follows it
ActionStage(behaviour, e) ==
    /\ ex_pc \in Range(Stages)
    /\ behaviour \in Behaviours(ex_pc)
    /\ LET stage == ex_pc
           status == StageReturns(stage, behaviour, e)
       IN  /\ exceptions' = IF behaviour = "success" THEN exceptions
                            ELSE Append(exceptions, Exc(stage, <<e>>))
           /\ IF behaviour = "escapes"
              THEN /\ calls' = Append(calls, Call(stage, NoOutcome))
                   /\ ex_pc' = ExceptHandler(IMPLEMENTATION, <<e>>).ex_pc
                   /\ outcome' = ExceptHandler(IMPLEMENTATION, <<e>>).outcome
                   /\ UNCHANGED implementation_status
              ELSE /\ calls' = Append(calls, Call(stage, status))
                   /\ implementation_status' =
                          IF stage = "implement_task" THEN status
                          ELSE implementation_status
                   /\ IF status.status = "error"
                      THEN /\ ex_pc' = "returned"
                           /\ outcome' = status
                      ELSE IF StageIndex(stage) < Len(Stages)
                      THEN /\ ex_pc' = Stages[StageIndex(stage) + 1]
                           /\ UNCHANGED outcome
                      ELSE /\ ex_pc' = "returned"
                           /\ outcome' = FinalOutcome(implementation_status, status)
    /\ UNCHANGED <<executor, current_task>>
    /\ UNCHANGED hist_vars
    /\ UNCHANGED <<proj_vars, dec_vars, plan_vars>>
    /\ UNCHANGED <<implementation_agents, task_objs, task_queue, completed_tasks,
                   pc, agent_idx, next_task, results, planning_status, result>>

NextExec ==
    \/ \E objective \in Objectives, raised \in BOOLEAN, e \in ExceptionMessages :
           InvokePlanner(objective, raised, e)
    \/ \E task \in TaskRequests, file_state \in FileStates, e \in ExceptionMessages :
           InvokeLibrarian(task, file_state, e)
    \/ \E agent \in 1..Len(SUBDIRS), task \in TaskRequests,
          fail_at \in ImplementationFaults, e \in ExceptionMessages :
           InvokeImplementation(agent, task, fail_at, e)
    \/ \E task \in TaskRequests : InvokeAction(task)
    \/ \E behaviour \in {"success", "caught", "escapes"}, e \in ExceptionMessages :
           ActionStage(behaviour, e)

SpecExec == Init /\ [][NextExec]_vars

\* ------------------------------------- the history file of an executor
\* ImplementationAgent.process_task seen at its two file operations: the
\* load of the history at its start and the save in _update_history.  The
\* orchestrator specifications and SpecExec follow the outcome of an
\* invocation only and leave the history file aside.

MaxHistory == 2       \* entries of a history file that are followed

HistoryTasks == { {"component", "page"}, {"api"} }

\* the entry _update_history appends
HistoryEntry(task, output_files) ==
    [timestamp |-> "2024-02-09T12:00:00Z", task |-> task,
     files_modified |-> output_files, status |-> "success"]

\* process_task up to `self.history = self.load_context(...)`: the caller's
\* agent object for working directory `agent` holds a copy of the file
LoadHistory(p, agent, task) ==
    /\ invocations[p].pc = "idle"
    /\ agent \in 1..Len(implementation_agents)
    /\ Len(history_file[implementation_agents[agent]]) < MaxHistory
    /\ invocations' = [invocations EXCEPT ![p] =
           [pc |-> "loaded", dir |-> implementation_agents[agent], task |-> task,
            history |-> history_file[implementation_agents[agent]]]]
    /\ UNCHANGED history_file
    /\ UNCHANGED exec_vars
    /\ UNCHANGED <<proj_vars, dec_vars, plan_vars>>
    /\ UNCHANGED <<implementation_agents, task_objs, task_queue, completed_tasks,
                   pc, agent_idx, next_task, results, planning_status, result>>

\* faulty variant: the entry is appended to what is in the file at the save
update_history_Atomic(p) ==
    Append(history_file[invocations[p].dir],
           HistoryEntry(invocations[p].task,
                        mock_implementation(invocations[p].dir, invocations[p].task)))

\* faulty variant: the new entry replaces the list
update_history_Overwrite(p) ==
    << HistoryEntry(invocations[p].task,
                    mock_implementation(invocations[p].dir, invocations[p].task)) >>

\* _update_history: the list with the new entry appended, as it is saved
update_history(p) ==
    Append(invocations[p].history,
           HistoryEntry(invocations[p].task,
                        mock_implementation(invocations[p].dir, invocations[p].task)))

\* the rest of process_task: _mock_implementation, _update_history with its
\* save_context, and the return; when save_context raises before writing,
\* the file is left as it was and the outcome is an error
SaveHistory(p, save_raises) ==
    /\ invocations[p].pc = "loaded"
    /\ history_file' =
           IF save_raises THEN history_file
           ELSE [history_file EXCEPT ![invocations[p].dir] = update_history(p)]
    /\ invocations' = [invocations EXCEPT ![p] = NoInvocation]
    /\ UNCHANGED exec_vars
    /\ UNCHANGED <<proj_vars, dec_vars, plan_vars>>
    /\ UNCHANGED <<implementation_agents, task_objs, task_queue, completed_tasks,
                   pc, agent_idx, next_task, results, planning_status, result>>

Idle == \A p \in Callers : invocations[p].pc = "idle"

\* an invocation starts only when none is in progress
LoadHistorySerial(p, agent, task) ==
    /\ Idle
    /\ LoadHistory(p, agent, task)

NextHistory ==
    \/ \E p \in Callers, agent \in 1..Len(SUBDIRS), task \in HistoryTasks :
           LoadHistory(p, agent, task)
    \/ \E p \in Callers, save_raises \in BOOLEAN : SaveHistory(p, save_raises)

NextHistorySerial ==
    \/ \E p \in Callers, agent \in 1..Len(SUBDIRS), task \in HistoryTasks :
           LoadHistorySerial(p, agent, task)
    \/ \E p \in Callers, save_raises \in BOOLEAN : SaveHistory(p, save_raises)

\* invocations that may overlap (callers that do not wait for each other)
SpecHistory == Init /\ [][NextHistory]_vars

\* invocations one after the other, as the dispatch loop issues them
SpecHistorySerial == Init /\ [][NextHistorySerial]_vars

\* ----------------------------------------------------------- ProjectState
orch_vars == <<implementation_agents, task_objs, task_queue, completed_tasks,
               pc, agent_idx, next_task, results, planning_status, result>>

MaxEvents == 3        \* calls of update_agent_status that are followed

\* the StatusUpdate objects submitted
StatusUpdates ==
    {StatusUpdate(role, "success", <<>>, <<>>) : role \in {PLANNER, IMPLEMENTATION, LIBRARIAN}}
        \cup {StatusUpdate(role, "error", <<>>, <<"e1">>) :
                 role \in {PLANNER, IMPLEMENTATION, LIBRARIAN}}

\* ProjectState.log_event: the entry appended (data.__dict__ of a StatusUpdate
\* is the record of its fields)
log_event(event_type, data) == Append(event_log, [type |-> event_type, data |-> data])

\* self.agent_statuses[key] = value
SetItem(dict, key, value) ==
    [k \in DOMAIN dict \cup {key} |-> IF k = key THEN value ELSE dict[k]]

\* faulty variant: a role's first status is kept
update_agent_status_KeepFirst(status_update) ==
    /\ Len(event_log) < MaxEvents
    /\ agent_statuses' =
           IF status_update.agent \in DOMAIN agent_statuses THEN agent_statuses
           ELSE SetItem(agent_statuses, status_update.agent, status_update)
    /\ event_log' = log_event("agent_status_update", status_update)
    /\ UNCHANGED <<orch_vars, exec_vars, hist_vars, dec_vars, plan_vars>>

\* ProjectState.update_agent_status
update_agent_status(status_update) ==
    /\ Len(event_log) < MaxEvents
    /\ agent_statuses' = SetItem(agent_statuses, status_update.agent, status_update)
    /\ event_log' = log_event("agent_status_update", status_update)
    /\ UNCHANGED <<orch_vars, exec_vars, hist_vars, dec_vars, plan_vars>>

NextProject == \E status_update \in StatusUpdates : update_agent_status(status_update)

SpecProject == Init /\ [][NextProject]_vars

\* --------------------------------------------------------- TaskDecomposer
\* brain/llm/decomposer.py: decompose_task asks the LLM up to max_retries
\* times and returns the first answer that parses and validates, after the
\* parsing rules.

decomposer_max_retries == 3
max_subtasks == 10
score_min == 1
score_max == 5

MaxLlmSubtasks == 12  \* subtasks in an answer of the LLM
MaxLlmScore == 6      \* complexity_score in an answer of the LLM (from 0)

ToolLists == { <<"tool1">>, <<"tool2">>, <<"tool1", "tool2">> }

\* the available_tools arguments
ToolSets == { {"tool1"}, {"tool1", "tool2"} }

Responses ==
    { LlmResponse("raise", FALSE, <<>>, 0, <<>>),
      LlmResponse("text", FALSE, <<>>, 0, <<>>),
      LlmResponse("json", FALSE, <<>>, score_min, <<>>) }
    \cup { LlmResponse("json", TRUE, ts, sc, [i \in 1..n |-> i]) :
              ts \in ToolLists, sc \in 0..MaxLlmScore, n \in 0..MaxLlmSubtasks }

\* TaskAnalysis(**analysis_dict) raises ValidationError
ValidationError(r) ==
    \/ ~r.complete
    \/ r.complexity_score < score_min
    \/ r.complexity_score > score_max

\* TaskAnalysis(**analysis_dict)
TaskAnalysis(r) ==
    [required_tools |-> r.required_tools, complexity_score |-> r.complexity_score,
     subtasks |-> r.subtasks]

\* faulty variant: the list of subtasks is returned as the LLM gave it
apply_parsing_rules_NoTruncation(a, tools) == a

\* TaskDecomposer._apply_parsing_rules: the two checks that only log, then
\* the truncation
apply_parsing_rules(a, tools) ==
    IF Len(a.subtasks) > max_subtasks
    THEN [a EXCEPT !.subtasks = SubSeq(a.subtasks, 1, max_subtasks)]
    ELSE a

\* decompose_task up to the loop
StartDecompose(tools) ==
    /\ dec_pc \in {"idle", "returned"}
    /\ dec_pc' = "loop"
    /\ attempt' = 0
    /\ available_tools' = tools
    /\ response' = NoResponse
    /\ analysis' = NoAnalysis
    /\ llm_calls' = <<>>
    /\ UNCHANGED <<orch_vars, exec_vars, hist_vars, proj_vars, plan_vars>>

\* how one iteration of the loop ends: the except clause that catches it, or
\* "ok" when the answer parses and validates
AttemptEnd(r) ==
    IF r.kind = "raise" THEN "Exception"
    ELSE IF r.kind = "text" THEN "JSONDecodeError"
    ELSE IF ValidationError(r) THEN "ValidationError"
    ELSE "ok"

\* faulty variant: the first failed attempt ends the loop
DecomposeAttempt_GiveUp(r) ==
    /\ dec_pc = "loop"
    /\ response' = r
    /\ llm_calls' = Append(llm_calls, AttemptEnd(r))
    /\ analysis' = IF AttemptEnd(r) = "ok"
                   THEN apply_parsing_rules(TaskAnalysis(r), available_tools)
                   ELSE NoAnalysis
    /\ dec_pc' = "returned"
    /\ UNCHANGED <<attempt, available_tools>>
    /\ UNCHANGED <<orch_vars, exec_vars, hist_vars, proj_vars, plan_vars>>

\* one iteration of `for attempt in range(self.max_retries)` with the answer
\* r; after the last failed iteration, the `return None`
DecomposeAttempt(r) ==
    /\ dec_pc = "loop"
    /\ response' = r
    /\ llm_calls' = Append(llm_calls, AttemptEnd(r))
    /\ IF AttemptEnd(r) = "ok"
       THEN /\ analysis' = apply_parsing_rules(TaskAnalysis(r), available_tools)
            /\ dec_pc' = "returned"
            /\ UNCHANGED attempt
       ELSE /\ analysis' = NoAnalysis
            /\ IF attempt + 1 < decomposer_max_retries
               THEN /\ attempt' = attempt + 1
                    /\ UNCHANGED dec_pc
               ELSE /\ dec_pc' = "returned"
                    /\ UNCHANGED attempt
    /\ UNCHANGED available_tools
    /\ UNCHANGED <<orch_vars, exec_vars, hist_vars, proj_vars, plan_vars>>

NextDecomposer ==
    \/ \E tools \in ToolSets : StartDecompose(tools)
    \/ \E r \in Responses : DecomposeAttempt(r)

SpecDecomposer == Init /\ [][NextDecomposer]_vars

\* ------------------------------------------- the planner's methods, direct
\* PlannerAgent.process_task and PlannerAgent.mark_task_complete called by
\* a client of the planner, in any order and with any arguments.

MaxAttempts == 3      \* failures charged to one subtask that are followed

\* the task_description arguments of mark_task_complete: the descriptions
\* the decomposition emits, and one that is never queued
MarkDescriptions ==
    { Description(area, objective) :
          area \in {"frontend", "backend"}, objective \in DagObjectives }
    \cup { Description("frontend", "unknown") }

\* await planner.process_task(TaskRequest(objective, ...))
PlannerCall(subtasks, raised) ==
    /\ raised \/ Len(task_queue) + Len(completed_tasks) + Len(subtasks) <= MaxTasks
    /\ PlannerProcessTask(subtasks, raised)
    /\ UNCHANGED <<implementation_agents, completed_tasks, pc, agent_idx,
                   next_task, results, result>>
    /\ UNCHANGED <<exec_vars, hist_vars, proj_vars, dec_vars, plan_vars>>

\* planner.mark_task_complete(task_description, success)
MarkTaskComplete(task_description, success) ==
    /\ LET i == FindDescription(1, task_description) IN
       IF success \/ i = 0 THEN TRUE
       ELSE task_objs[task_queue[i]].attempts < MaxAttempts
    /\ mark_task_complete(task_description, success)
    /\ mark_call' = [task_description |-> task_description, success |-> success]
    /\ UNCHANGED <<implementation_agents, pc, agent_idx, next_task, results,
                   planning_status, result>>
    /\ UNCHANGED <<exec_vars, hist_vars, proj_vars, dec_vars>>

NextPlanner ==
    \/ \E objective \in DagObjectives, raised \in BOOLEAN :
          PlannerCall(decompose_task(objective), raised)
    \/ \E d \in MarkDescriptions, success \in BOOLEAN : MarkTaskComplete(d, success)

SpecPlanner == Init /\ [][NextPlanner]_vars

\* ------------------------------------------------------------- properties
QueueIds == Range(task_queue)
CompletedIds == Range(completed_tasks)
AllIds == DOMAIN task_objs

\* C1 (dependency gating): whenever get_next_task has handed a subtask to an
\* executor, that subtask is queued, has the requested role, is pending, and
\* each of its dependency descriptions is the description of some subtask in
\* completed_tasks (nothing changes between the call and the invocation).
C1_DependencyGating ==
    pc = "await" =>
        /\ next_task \in QueueIds
        /\ task_objs[next_task].assigned_to = IMPLEMENTATION
        /\ task_objs[next_task].status = "pending"
        /\ \A dep \in task_objs[next_task].dependencies :
              \E c \in 1..Len(completed_tasks) :
                  task_objs[completed_tasks[c]].description = dep

\* a subtask with a dependency was selected
C1_Witness ==
    /\ pc = "await"
    /\ task_objs[next_task].dependencies # {}

\* no two Task objects carry the same description
DistinctDescriptions ==
    \A a, b \in AllIds :
        task_objs[a].description = task_objs[b].description => a = b

\* C2 (termination): with at least one executor configured and pairwise
\* distinct descriptions, a dispatch loop that was entered eventually returns
\* (or the run uses up the MaxResults invocations this model follows).
C2_Termination ==
    (pc = "for" /\ Len(implementation_agents) > 0 /\ DistinctDescriptions)
        ~> (pc = "returned" \/ Len(results) >= MaxResults)

\* get_next_task has just returned t (the step that enters the invocation)
Returned(t) == pc = "await" /\ next_task = t

\* C3 (terminal failure): the step that brings a subtask's attempts to
\* max_retries leaves it with status failed, and a subtask whose attempts have
\* reached max_retries keeps that count and is never again returned by
\* get_next_task, in this or any later call of process_task.
C3_TerminalFailure ==
    [][\A t \in AllIds :
          /\ (task_objs[t].attempts < max_retries /\ task_objs'[t].attempts >= max_retries)
                => task_objs'[t].status = "failed"
          /\ task_objs[t].attempts >= max_retries
                => /\ task_objs'[t].attempts >= max_retries
                   /\ task_objs'[t].status # "pending"
                   /\ ~Returned(t)']_vars

\* get_next_task was called, and returned another subtask, while a subtask
\* that exhausted its budget is still queued
C3_Witness ==
    /\ pc = "await"
    /\ \E t \in QueueIds :
          /\ task_objs[t].attempts = max_retries
          /\ task_objs[t].status = "failed"
          /\ t < next_task

\* the executor invocation on next_task returns and the planner is updated
InvocationEnds == pc = "await" /\ pc' = "for"

LastStatus(rs) == rs[Len(rs)].status

\* C4 (retry monotonicity): an invocation on subtask t that ends in error
\* raises t.attempts by exactly 1 and changes no other subtask's attempts; an
\* invocation that ends in success changes no subtask's attempts.
C4_RetryMonotonicity ==
    [][InvocationEnds =>
          \A u \in AllIds :
              task_objs'[u].attempts =
                  IF u = next_task /\ LastStatus(results') = "error"
                  THEN task_objs[u].attempts + 1
                  ELSE task_objs[u].attempts]_vars

\* C5 (permanence of failure): a subtask whose status is failed stays failed
\* and keeps its attempt count in every later state.
C5_FailurePermanent ==
    [][\A t \in AllIds :
          task_objs[t].status = "failed"
              => /\ task_objs'[t].status = "failed"
                 /\ task_objs'[t].attempts = task_objs[t].attempts]_vars

\* C6 (success is final): the subtask whose invocation ended in success is
\* removed from task_queue and appended to completed_tasks with status
\* completed; a completed subtask is never queued and never returned again.
C6_SucceededLeavesQueue ==
    [][/\ (InvocationEnds /\ LastStatus(results') = "success")
             => /\ next_task \notin Range(task_queue')
                /\ completed_tasks' = Append(completed_tasks, next_task)
                /\ task_objs'[next_task].status = "completed"
       /\ \A t \in AllIds :
             task_objs[t].status = "completed"
                 => /\ task_objs'[t].status = "completed"
                    /\ t \notin Range(task_queue')
                    /\ t \in Range(completed_tasks')
                    /\ ~Returned(t)']_vars

\* the subtask mark_task_complete acts on for description d
Matched(d) ==
    IF FindDescription(1, d) = 0 THEN None ELSE task_queue[FindDescription(1, d)]

\* C7 (failure transition, scenario B): when an invocation ends in error, the
\* subtask matched by the description gets attempts + 1 and status failed if
\* the new count is >= 3, else pending; a subtask that stays pending and was
\* the one executed still passes the test of get_next_task.  So a subtask
\* that fails each time is pending with 1 and 2 attempts, failed with 3.
C7_FailureTransition ==
    [][(InvocationEnds /\ LastStatus(results') = "error") =>
          LET m == Matched(task_objs[next_task].description) IN
          /\ m # None
          /\ task_objs'[m].attempts = task_objs[m].attempts + 1
          /\ task_objs'[m].status = "failed" <=> task_objs'[m].attempts >= max_retries
          /\ task_objs'[m].status \in {"failed", "pending"}
          /\ (task_objs'[m].attempts = 1 \/ task_objs'[m].attempts = 2)
                => task_objs'[m].status = "pending"
          /\ (m = next_task /\ task_objs'[m].status = "pending")
                => /\ m \in Range(task_queue')
                   /\ \A dep \in task_objs'[m].dependencies :
                          \E c \in 1..Len(completed_tasks') :
                              task_objs'[completed_tasks'[c]].description = dep]_vars

\* scenario B: one subtask, one executor, three failed attempts in a row
C7_Witness ==
    /\ Len(task_queue) = 1 /\ completed_tasks = <<>>
    /\ Len(results) = 3
    /\ \A i \in 1..3 : results[i].status = "error"
    /\ task_objs[task_queue[1]].status = "failed"
    /\ task_objs[task_queue[1]].attempts = 3

\* queue positions that hold a pending Implementation subtask whose
\* dependency descriptions all occur in completed_tasks
Selectable ==
    {i \in 1..Len(task_queue) :
        /\ task_objs[task_queue[i]].assigned_to = IMPLEMENTATION
        /\ task_objs[task_queue[i]].status = "pending"
        /\ \A dep \in task_objs[task_queue[i]].dependencies :
              \E c \in 1..Len(completed_tasks) :
                  task_objs[completed_tasks[c]].description = dep}

\* the dispatcher is about to call get_next_task
AtCall == pc = "for" /\ agent_idx <= Len(implementation_agents)

\* C8 (FIFO selection): each call of get_next_task returns the subtask at the
\* least selectable queue position, and none when no position is selectable;
\* the result is fixed by task_queue, completed_tasks and the role.
C8_FifoSelection ==
    [][AtCall =>
          IF Selectable = {}
          THEN next_task' = None /\ pc' = "for"
          ELSE /\ pc' = "await"
               /\ \E i \in Selectable :
                     /\ next_task' = task_queue[i]
                     /\ \A j \in Selectable : i <= j]_vars

\* a call skipped a pending subtask that waits for a dependency, and one that
\* is failed, and returned a later one
C8_Witness ==
    /\ pc = "await"
    /\ \E i, j \in 1..Len(task_queue) :
          /\ task_queue[i] < next_task /\ task_queue[j] < next_task
          /\ task_objs[task_queue[i]].status = "pending"
          /\ task_objs[task_queue[j]].status = "failed"

\* process_task is being called
AtEntry == pc \in {"idle", "returned"}

\* C9 (planner failure aborts the run): a call whose planner step ends in
\* error returns at once a document with status error that carries the error
\* message and a project_status snapshot; it adds no subtask to task_queue,
\* constructs none, and invokes no executor.
C9_PlannerFailureAborts ==
    [][(AtEntry /\ planning_status' = "error") =>
          /\ pc' = "returned"
          /\ result'.status = "error"
          /\ result'.error = PlanningError
          /\ result'.project_status = get_project_status
          /\ task_queue' = task_queue
          /\ task_objs' = task_objs
          /\ completed_tasks' = completed_tasks
          /\ results' = <<>>]_vars

\* a call aborted by the planner, on an orchestrator whose queue still holds
\* a subtask of an earlier call
C9_Witness ==
    /\ pc = "returned"
    /\ planning_status = "error"
    /\ result.status = "error"
    /\ Len(task_queue) > 0

\* C10 (run-level status): a call that has returned reports success exactly
\* when its planner step succeeded, however many subtasks are failed, and
\* error exactly when its planner step ended in error.
C10_RunLevelStatus ==
    pc = "returned" =>
        /\ planning_status = "success" <=> result.status = "success"
        /\ planning_status = "error" <=> result.status = "error"
        /\ result.status \in {"success", "error"}

\* a run returned success with a permanently failed subtask in its snapshot
C10_Witness ==
    /\ pc = "returned"
    /\ result.status = "success"
    /\ result.project_status.failed_tasks > 0
    /\ \E i \in 1..Len(result.results) : result.results[i].status = "error"

\* every invocation recorded so far in this call succeeded
AllSucceeded(rs) == \A i \in 1..Len(rs) : rs[i].status = "success"

\* the first call on a fresh orchestrator that has both executors, in the
\* registration order frontend, backend
FreshPairRun ==
    /\ implementation_agents = <<"frontend", "backend">>
    /\ planning_status = "success"
    /\ Len(task_queue) + Len(completed_tasks) = 2

\* C11 (scenario A): on a fresh orchestrator with the frontend and backend
\* executors and every invocation succeeding, the call queues exactly two
\* dependency-free subtasks, the first pass makes exactly two invocations
\* (the frontend subtask on the frontend executor, then the backend subtask
\* on the backend executor) and ends the loop, and the document returned has
\* status success with 2 completed, 0 failed, 0 pending.
C11_ScenarioA ==
    (FreshPairRun /\ AllSucceeded(results)) =>
        /\ DOMAIN task_objs = 1..2
        /\ \A t \in 1..2 : task_objs[t].dependencies = {}
        /\ \E o \in Objectives :
              /\ task_objs[1].description = Description("frontend", o)
              /\ task_objs[2].description = Description("backend", o)
              /\ \A i \in 1..Len(results) :
                    results[i] = ResultEntry(SUBDIRS[i], Description(SUBDIRS[i], o), "success")
        /\ Len(results) <= 2
        /\ (pc = "for" /\ agent_idx > Len(implementation_agents))
              => (Len(results) = 2 /\ ~AnyPending)
        /\ pc = "returned"
              => /\ result.status = "success"
                 /\ Len(result.results) = 2
                 /\ result.project_status =
                       [pending_tasks |-> 0, completed_tasks |-> 2, failed_tasks |-> 0]

\* scenario A has run to its end
C11_Witness ==
    /\ FreshPairRun /\ AllSucceeded(results)
    /\ pc = "returned"
    /\ Len(result.results) = 2

\* the working area named in a description "Implement <area> for: ..."
AreaOf(description) == description[1]

\* C12 (executor routing): with both executors configured, every recorded
\* execution of a subtask "Implement <area> for: <objective>" was made by the
\* executor bound to <area>.
C12_ExecutorRouting ==
    implementation_agents = <<"frontend", "backend">> =>
        \A i \in 1..Len(results) : results[i].agent = AreaOf(results[i].task)

\* the for loop over the executors has run out: the pass is over
AtEndOfPass == pc = "for" /\ agent_idx > Len(implementation_agents)

NoPendingQueued ==
    \A i \in 1..Len(task_queue) : task_objs[task_queue[i]].status # "pending"

\* C13 (loop exit): the dispatch loop is left only at the end of a pass and
\* only with no pending subtask queued; at the end of a pass with no pending
\* subtask (failed ones may remain) it is left at once, and with a pending
\* subtask the next pass starts with the first executor.
C13_LoopExit ==
    [][/\ (pc \in {"for", "await"} /\ pc' = "returned")
             => (AtEndOfPass /\ NoPendingQueued)
       /\ (AtEndOfPass /\ NoPendingQueued)
             => (pc' = "returned" /\ result'.results = results)
       /\ (AtEndOfPass /\ ~NoPendingQueued)
             => (pc' = "for" /\ agent_idx' = 1)]_vars

\* a loop that needed more than one pass was left with a failed subtask
\* still queued
C13_Witness ==
    /\ pc = "returned"
    /\ result.status = "success"
    /\ Len(result.results) > Len(implementation_agents)
    /\ \E i \in 1..Len(task_queue) : task_objs[task_queue[i]].status = "failed"

\* failed invocations recorded in this call for description d
ErrorsFor(d) ==
    Cardinality({i \in 1..Len(results) :
                    results[i].task = d /\ results[i].status = "error"})

SucceededIn(rs, d) ==
    \E i \in 1..Len(rs) : rs[i].task = d /\ rs[i].status = "success"

\* C14 (failure isolation): a subtask that fails on every attempt is frozen
\* after exactly 3 attempts (it is not handed out a fourth time), and the
\* call returns with every sibling that succeeded in the completed set.
C14_FailureIsolation ==
    /\ pc = "await" => ErrorsFor(task_objs[next_task].description) < max_retries
    /\ (pc = "returned" /\ result.status = "success") =>
          \A i \in 1..Len(results) :
              IF SucceededIn(results, results[i].task)
              THEN results[i].task \in CompletedDescriptions
              ELSE ErrorsFor(results[i].task) = max_retries

\* C15 (retry budget bound): in every reachable state every subtask, queued
\* or completed, has 0 <= attempts <= max_retries.
C15_RetryBudgetBound ==
    \A t \in AllIds :
        /\ 0 <= task_objs[t].attempts
        /\ task_objs[t].attempts <= max_retries

\* the queued subtask that mark_task_complete(description, _) is said to
\* select: the first one with that description that is pending
RECURSIVE FirstPending(_, _, _)
FirstPending(objs, queue, description) ==
    IF queue = <<>> THEN None
    ELSE IF /\ objs[Head(queue)].description = description
            /\ objs[Head(queue)].status = "pending"
         THEN Head(queue)
         ELSE FirstPending(objs, Tail(queue), description)

\* C16 (selection by mark_task_complete): the transition is applied to the
\* first pending subtask with the given description; every other subtask, in
\* particular a failed one with the same description, is left as it was.
C16_MarksFirstPending ==
    [][InvocationEnds =>
          LET sel == FirstPending(task_objs, task_queue,
                                  task_objs[next_task].description)
          IN  /\ sel # None
              /\ task_objs'[sel] # task_objs[sel]
              /\ \A t \in AllIds \ {sel} : task_objs'[t] = task_objs[t]]_vars

\* C17 (pipeline short-circuit): ActionAgent.process_task calls
\* gather_context, validate_requirements, implement_task, run_tests in that
\* order; a stage that returns an error outcome is the last one called and
\* its outcome is the final outcome; when all four returned success the final
\* outcome is success with the output files implement_task returned.
C17_PipelineShortCircuit ==
    executor = "ActionAgent" =>
        /\ Len(calls) <= Len(Stages)
        /\ \A i \in 1..Len(calls) : calls[i].name = Stages[i]
        /\ \A i \in 1..Len(calls) :
              /\ calls[i].returned.status # "success"
                    => (i = Len(calls) /\ ex_pc = "returned")
              /\ calls[i].returned.status = "error"
                    => outcome = calls[i].returned
        /\ ex_pc \in Range(Stages) => Len(calls) = StageIndex(ex_pc) - 1
        /\ ( /\ ex_pc = "returned"
             /\ \A i \in 1..Len(calls) : calls[i].returned.status = "success" )
           => /\ Len(calls) = Len(Stages)
              /\ outcome.status = "success"
              /\ outcome.output_files =
                     calls[StageIndex("implement_task")].returned.output_files
              /\ outcome.output_files =
                     <<implement_task_files(current_task.task_description)>>

\* validate_requirements returned an error outcome and process_task returned
C17_Witness ==
    /\ executor = "ActionAgent"
    /\ ex_pc = "returned"
    /\ Len(calls) = StageIndex("validate_requirements")
    /\ calls[Len(calls)].returned.status = "error"
    /\ outcome = calls[Len(calls)].returned

IsPrefix(s, t) == Len(s) <= Len(t) /\ \A i \in 1..Len(s) : s[i] = t[i]

IsSuffix(s, t) ==
    Len(s) <= Len(t) /\ \A i \in 1..Len(s) : s[i] = t[Len(t) - Len(s) + i]

\* the exception was caught inside the ActionAgent stage that raised it
CaughtByStage ==
    /\ executor = "ActionAgent"
    /\ calls # <<>>
    /\ calls[Len(calls)].returned.status = "error"

DirectoryKind(task) == "get_directory_structure" \in task.task_description

\* the file-read branch is taken only when the first test failed
FileReadKind(task) ==
    /\ ~DirectoryKind(task)
    /\ "read_file" \in task.task_description

\* C20 (Librarian task kinds): a request of neither kind is answered with an
\* error outcome whose message starts with "Unknown task type"; a file-read
\* request with empty required_context is answered with the error outcome
\* "No file path provided"; success is returned only for the two kinds.
C20_LibrarianTaskKinds ==
    (executor = "LibrarianAgent" /\ ex_pc = "returned") =>
        /\ (~DirectoryKind(current_task) /\ ~FileReadKind(current_task))
              => /\ outcome.status = "error"
                 /\ outcome.error_message # <<>>
                 /\ outcome.error_message[1] = "Unknown task type: "
                 /\ calls = <<>>
        /\ (FileReadKind(current_task) /\ current_task.required_context = <<>>)
              => /\ outcome.status = "error"
                 /\ outcome.error_message = <<"No file path provided">>
                 /\ calls = <<>>
        /\ outcome.status = "success"
              => (DirectoryKind(current_task) \/ FileReadKind(current_task))
        /\ outcome.status \in {"success", "error"}

\* a description of neither kind was answered
C20_Witness ==
    /\ executor = "LibrarianAgent"
    /\ ex_pc = "returned"
    /\ ~DirectoryKind(current_task)
    /\ ~FileReadKind(current_task)
    /\ outcome.status = "error"

C22_PassOrdering ==
    [][/\ agent_idx \in 1..(Len(implementation_agents) + 1)
       /\ (pc = "for" /\ pc' = "await")
             => /\ AtCall
                /\ get_next_task(IMPLEMENTATION) # None
                /\ next_task' = get_next_task(IMPLEMENTATION)
                /\ agent_idx' = agent_idx
       /\ (AtCall /\ get_next_task(IMPLEMENTATION) = None)
             => /\ pc' = "for"
                /\ agent_idx' = agent_idx + 1
                /\ results' = results
       /\ InvocationEnds
             => /\ agent_idx' = agent_idx + 1
                /\ Len(results') = Len(results) + 1
                /\ results'[Len(results')].agent = implementation_agents[agent_idx]
       /\ agent_idx' # agent_idx
             => \/ agent_idx' = agent_idx + 1
                \/ agent_idx' = 1 /\ (AtEndOfPass \/ AtEntry)
       /\ results' # results => (InvocationEnds \/ AtEntry)]_vars

\* the second executor's turn passed without an invocation, because
\* get_next_task returned nothing, in a call that made invocations before
C22_Witness ==
    /\ Len(implementation_agents) = 2
    /\ pc = "for"
    /\ agent_idx = 3
    /\ next_task = None
    /\ results # <<>>
    /\ results[Len(results)].agent = implementation_agents[1]

GraphState == <<task_objs, task_queue, completed_tasks>>

\* C23 (single outstanding invocation): while an invocation is in flight the
\* only thing that happens is its return, followed at once by
\* mark_task_complete for the same subtask; no get_next_task is issued and
\* the graph is not changed in between, and a new call of process_task does
\* not start.  The graph changes only when an invocation returns or at the
\* planner step of a call.
C23_SingleOutstanding ==
    [][/\ pc = "await"
             => /\ next_task # None
                /\ pc' = "for"
                /\ next_task' = next_task
                /\ Len(results') = Len(results) + 1
                /\ results'[Len(results')].task = task_objs[next_task].description
       /\ next_task' # next_task => (pc = "for" \/ AtEntry)
       /\ GraphState' # GraphState => (InvocationEnds \/ AtEntry)]_vars

\* an invocation is in flight while its subtask is still the one a further
\* get_next_task would return, and another pending subtask is queued
C23_Witness ==
    /\ pc = "await"
    /\ get_next_task(IMPLEMENTATION) = next_task
    /\ \E i \in 1..Len(task_queue) :
          /\ task_queue[i] # next_task
          /\ task_objs[task_queue[i]].status = "pending"

\* C24 (executors never write graph state): an invocation of an
\* ImplementationAgent (or of a LibrarianAgent or ActionAgent) leaves
\* task_queue, completed_tasks and every subtask unchanged; among the agents'
\* process_task only the planner's changes the graph, by appending new
\* subtasks to task_queue without touching the existing ones.
C24_ExecutorsLeaveGraph ==
    [][/\ executor' \in {"ImplementationAgent", "LibrarianAgent", "ActionAgent"}
             => GraphState' = GraphState
       /\ GraphState' # GraphState
             => /\ executor' = "PlannerAgent"
                /\ outcome'.status = "success"
                /\ completed_tasks' = completed_tasks
                /\ Len(task_queue') > Len(task_queue)
                /\ SubSeq(task_queue', 1, Len(task_queue)) = task_queue
                /\ \A t \in AllIds : task_objs'[t] = task_objs[t]]_vars

\* an ImplementationAgent returned success while pending subtasks are queued
C24_Witness ==
    /\ executor = "ImplementationAgent"
    /\ ex_pc = "returned"
    /\ outcome.status = "success"
    /\ task_queue # <<>>
    /\ completed_tasks = <<>>
    /\ \A i \in 1..Len(task_queue) :
          /\ task_objs[task_queue[i]].status = "pending"
          /\ task_objs[task_queue[i]].attempts = 0

InStatus(st) == {t \in AllIds : task_objs[t].status = st}

\* C25 (result snapshot): the project_status of a success document counts
\* the subtasks that are pending, completed and failed at the return; there
\* pending_tasks is 0 and completed_tasks + failed_tasks is the number of
\* subtasks ever queued on this planner, so a failed subtask shows in the
\* snapshot of a run reported as success.
C25_ResultSnapshot ==
    (pc = "returned" /\ result.status = "success") =>
        /\ result.project_status.pending_tasks = Cardinality(InStatus("pending"))
        /\ result.project_status.completed_tasks = Cardinality(InStatus("completed"))
        /\ result.project_status.failed_tasks = Cardinality(InStatus("failed"))
        /\ result.project_status.pending_tasks = 0
        /\ result.project_status.completed_tasks + result.project_status.failed_tasks
              = Cardinality(AllIds)
        /\ InStatus("completed") = CompletedIds
        /\ InStatus("failed") = QueueIds

\* a second call returned success with subtasks of both calls in the
\* snapshot, some completed and some failed
C25_Witness ==
    /\ pc = "returned"
    /\ result.status = "success"
    /\ Cardinality(AllIds) > 2
    /\ result.project_status.completed_tasks > 1
    /\ result.project_status.failed_tasks > 0

\* caller p's process_task ends in this step
SaveStep(p) == invocations[p].pc = "loaded" /\ invocations'[p].pc = "idle"

LoadStep(p) == invocations[p].pc = "idle" /\ invocations'[p].pc = "loaded"

EntryOf(p) ==
    HistoryEntry(invocations[p].task,
                 mock_implementation(invocations[p].dir, invocations[p].task))

\* C26 (history persistence): with the invocations on a working directory
\* issued one after the other, each invocation loads the persisted history
\* at its start and, when it ends, the persisted completed_tasks list is the
\* old list with exactly one entry for its task appended (or the old list,
\* when the save raised and the outcome is an error); the files of other
\* directories are untouched and nothing else writes a history file.
C26_HistoryPersistence ==
    [][/\ \A p \in Callers :
             /\ LoadStep(p)
                   => /\ invocations'[p].history = history_file[invocations'[p].dir]
                      /\ history_file' = history_file
             /\ SaveStep(p)
                   => /\ invocations[p].history = history_file[invocations[p].dir]
                      /\ \/ history_file' = history_file
                         \/ history_file' =
                               [history_file EXCEPT ![invocations[p].dir] =
                                   Append(@, EntryOf(p))]
       /\ history_file' # history_file => \E p \in Callers : SaveStep(p)]_vars

\* two tasks were processed on the frontend directory, one after the other
C26_Witness ==
    /\ Idle
    /\ Len(history_file["frontend"]) = 2
    /\ history_file["frontend"][1].task # history_file["frontend"][2].task

\* C27 (the load-append-save cycle is not atomic): an invocation saves its
\* own loaded copy with its entry appended.  When another invocation on the
\* same directory saved one entry since the load, the save replaces that
\* entry: the file has gained one entry where two invocations ended.  When
\* nothing was saved since the load, the file keeps every entry and gains one.
C27_LostUpdate ==
    [][\A p \in Callers :
          SaveStep(p) =>
              LET d == invocations[p].dir
                  L == invocations[p].history
                  F == history_file[d]
              IN  /\ history_file'[d] \in {F, Append(L, EntryOf(p))}
                  /\ (IsPrefix(L, F) /\ Len(F) = Len(L) + 1 /\ history_file'[d] # F)
                        => /\ Len(history_file'[d]) = Len(F)
                           /\ history_file'[d][Len(F)] # F[Len(F)]
                  /\ (L = F /\ history_file'[d] # F)
                        => /\ IsPrefix(F, history_file'[d])
                           /\ Len(history_file'[d]) = Len(F) + 1]_vars

\* both callers loaded the same, empty, frontend history, caller 1 saved its
\* entry for one task and caller 2 is about to save with another task
C27_Witness ==
    /\ invocations[2].pc = "loaded"
    /\ invocations[2].dir = "frontend"
    /\ invocations[2].history = <<>>
    /\ invocations[1].pc = "idle"
    /\ Len(history_file["frontend"]) = 1
    /\ history_file["frontend"][1].task # invocations[2].task

\* the index of the last entry of the log submitted for a role
LastFor(log, role) ==
    CHOOSE i \in 1..Len(log) :
        /\ log[i].data.agent = role
        /\ \A j \in (i + 1)..Len(log) : log[j].data.agent # role

\* C28 (ProjectState: append-only log and latest-status map): every call of
\* update_agent_status appends exactly one entry, for the submitted
\* StatusUpdate, to event_log and leaves the earlier entries as they are;
\* agent_statuses has a key for exactly the roles that submitted, and its
\* value is the role's most recent StatusUpdate.
C28_ProjectStateLog ==
    [][proj_vars' # proj_vars =>
          /\ Len(event_log') = Len(event_log) + 1
          /\ SubSeq(event_log', 1, Len(event_log)) = event_log
          /\ event_log'[Len(event_log')].type = "agent_status_update"
          /\ event_log'[Len(event_log')].data \in StatusUpdates
          /\ DOMAIN agent_statuses' =
                 {event_log'[i].data.agent : i \in 1..Len(event_log')}
          /\ \A role \in DOMAIN agent_statuses' :
                 agent_statuses'[role] = event_log'[LastFor(event_log', role)].data]_vars

\* a role submitted twice, with different statuses, and another role in
\* between
C28_Witness ==
    /\ Len(event_log) = 3
    /\ event_log[1].data.agent = event_log[3].data.agent
    /\ event_log[1].data # event_log[3].data
    /\ event_log[2].data.agent # event_log[1].data.agent
    /\ agent_statuses[event_log[3].data.agent] = event_log[3].data

ReturnedAnalysis == dec_pc = "returned" /\ analysis # NoAnalysis

\* C29 (at most 10 subtasks): an analysis returned by decompose_task has at
\* most 10 subtasks, which are the first ones of the LLM's answer in their
\* order (all of them when the answer has at most 10), and a
\* complexity_score from 1 to 5.
C29_MaxSubtasks ==
    ReturnedAnalysis =>
        /\ Len(analysis.subtasks) <= max_subtasks
        /\ IsPrefix(analysis.subtasks, response.subtasks)
        /\ Len(analysis.subtasks) =
               IF Len(response.subtasks) > max_subtasks THEN max_subtasks
               ELSE Len(response.subtasks)
        /\ score_min <= analysis.complexity_score
        /\ analysis.complexity_score <= score_max
        /\ analysis.complexity_score = response.complexity_score

\* an answer with more than 10 subtasks was returned, truncated
C29_Witness ==
    /\ ReturnedAnalysis
    /\ Len(response.subtasks) > max_subtasks
    /\ Len(analysis.subtasks) = max_subtasks

\* C30 (required tools are available): every tool in the required_tools of
\* a returned analysis is a member of available_tools.
C30_RequiredToolsAvailable ==
    ReturnedAnalysis =>
        \A i \in 1..Len(analysis.required_tools) :
            analysis.required_tools[i] \in available_tools

Failed(end) == end # "ok"

\* C31 (retry loop): decompose_task invokes the LLM at most 3 times; only a
\* failed attempt (JSON, validation or other error) is followed by another
\* one; it returns the analysis of the first attempt that parses and
\* validates, returns None exactly when all 3 attempts failed, and always
\* returns (no error leaves it).
C31_RetryLoop ==
    /\ Len(llm_calls) <= decomposer_max_retries
    /\ dec_pc \in {"idle", "loop", "returned"}
    /\ \A i \in 1..(Len(llm_calls) - 1) : Failed(llm_calls[i])
    /\ dec_pc = "loop" =>
          /\ Len(llm_calls) < decomposer_max_retries
          /\ \A i \in 1..Len(llm_calls) : Failed(llm_calls[i])
    /\ dec_pc = "returned" =>
          /\ Len(llm_calls) >= 1
          /\ (analysis = NoAnalysis) <=>
                 /\ Len(llm_calls) = decomposer_max_retries
                 /\ \A i \in 1..Len(llm_calls) : Failed(llm_calls[i])
          /\ (analysis # NoAnalysis) <=> ~Failed(llm_calls[Len(llm_calls)])
          /\ ~Failed(llm_calls[Len(llm_calls)]) =>
                 analysis = apply_parsing_rules(TaskAnalysis(response), available_tools)

\* three attempts failed in the three ways and None was returned
C31_Witness ==
    /\ dec_pc = "returned"
    /\ analysis = NoAnalysis
    /\ llm_calls = <<"Exception", "JSONDecodeError", "ValidationError">>

\* t is pending and one of its dependency descriptions is the description of
\* a subtask that is failed
BlockedByFailed(t) ==
    /\ t \in AllIds
    /\ task_objs[t].status = "pending"
    /\ \E f \in AllIds :
          /\ task_objs[f].status = "failed"
          /\ task_objs[f].description \in task_objs[t].dependencies

\* C32 (no failure cascade): once a pending subtask depends on a failed
\* subtask, it is pending in every later state and no call of get_next_task
\* returns it (so no later pass finds the queue without a pending subtask).
C32_NoFailureCascade ==
    \A t \in 1..MaxTasks :
        [](BlockedByFailed(t) =>
              [](t \in AllIds =>
                    /\ task_objs[t].status = "pending"
                    /\ ~Returned(t)
                    /\ AnyPending))

\* C33 (no executor configured): with an empty implementation_agents, a
\* successful Planner step queues two pending subtasks and enters the loop;
\* from then on no step invokes an executor or changes any state, and the
\* call does not return (only a call whose Planner step failed returns).
C33_NoExecutor ==
    [][implementation_agents = <<>> =>
          /\ (pc # "for" /\ pc' = "for") =>
                /\ Len(task_queue') = Len(task_queue) + 2
                /\ \A i \in (Len(task_queue) + 1)..Len(task_queue') :
                      /\ task_queue'[i] \notin AllIds
                      /\ task_objs'[task_queue'[i]].status = "pending"
          /\ pc = "for" => UNCHANGED vars
          /\ pc' # "await"
          /\ pc' = "returned" => result'.status = "error"]_vars

\* the loop runs with two pending subtasks and nobody to execute them
C33_Witness ==
    /\ implementation_agents = <<>>
    /\ pc = "for"
    /\ Len(task_queue) = 2
    /\ \A i \in 1..2 : task_objs[task_queue[i]].status = "pending"
    /\ get_next_task(IMPLEMENTATION) # None
    /\ results = <<>>

\* C34 (pool/status consistency): every subtask in task_queue is pending or
\* failed, every subtask in completed_tasks is completed, no Task object is
\* in both or twice in one, a failed subtask has at least max_retries
\* attempts, and the two collections together hold every subtask ever
\* added.
C34_PoolStatusConsistency ==
    /\ \A i \in 1..Len(task_queue) :
          task_objs[task_queue[i]].status \in {"pending", "failed"}
    /\ \A i \in 1..Len(completed_tasks) :
          task_objs[completed_tasks[i]].status = "completed"
    /\ QueueIds \cap CompletedIds = {}
    /\ Cardinality(QueueIds) = Len(task_queue)
    /\ Cardinality(CompletedIds) = Len(completed_tasks)
    /\ \A t \in AllIds :
          task_objs[t].status = "failed" => task_objs[t].attempts >= max_retries
    /\ QueueIds \cup CompletedIds = AllIds
    /\ Len(task_queue) + Len(completed_tasks) = Cardinality(AllIds)

\* a failed, a pending and a completed subtask at once
C34_Witness ==
    /\ \E i, j \in 1..Len(task_queue) :
          /\ task_objs[task_queue[i]].status = "failed"
          /\ task_objs[task_queue[j]].status = "pending"
          /\ task_objs[task_queue[j]].attempts > 0
    /\ Len(completed_tasks) > 0

\* C35 (frame of mark_task_complete): a call changes no Task object other
\* than the first one in task_queue with the description, keeps the other
\* queued subtasks in their order (the queue is unchanged or loses that one
\* element), changes nothing when no queued subtask has the description, and
\* with success = False leaves completed_tasks unchanged (with success = True
\* it appends the matched subtask).
C35_MarkFrame ==
    [][DOMAIN task_objs' = AllIds =>
          LET i == FindDescription(1, mark_call'.task_description) IN
          /\ i = 0 => UNCHANGED <<task_objs, task_queue, completed_tasks>>
          /\ \A t \in AllIds :
                task_objs'[t] # task_objs[t] => (i # 0 /\ t = task_queue[i])
          /\ \A t \in AllIds :
                /\ task_objs'[t].description = task_objs[t].description
                /\ task_objs'[t].dependencies = task_objs[t].dependencies
          /\ \/ task_queue' = task_queue
             \/ i # 0 /\ task_queue' = RemoveAt(task_queue, i)
          /\ \/ completed_tasks' = completed_tasks
             \/ /\ i # 0 /\ mark_call'.success
                /\ completed_tasks' = Append(completed_tasks, task_queue[i])
          /\ ~mark_call'.success => completed_tasks' = completed_tasks]_vars

\* a failed call was charged to the first of two queued subtasks with one
\* description, next to a subtask with another one
C35_Witness ==
    /\ ~mark_call.success
    /\ \E i, j, k \in 1..Len(task_queue) :
          /\ i < j
          /\ task_objs[task_queue[i]].description = mark_call.task_description
          /\ task_objs[task_queue[j]].description = mark_call.task_description
          /\ task_objs[task_queue[k]].description # mark_call.task_description
          /\ task_objs[task_queue[i]].attempts = 1
          /\ task_objs[task_queue[j]].attempts = 0

\* every dependency description of t is the description of a subtask in
\* the list `completed` (objs is the heap)
DependenciesSatisfied(objs, completed, t) ==
    \A dep \in objs[t].dependencies :
        \E c \in 1..Len(completed) : objs[completed[c]].description = dep

\* get_next_task would accept t
SelectableTask(objs, queue, completed, t) ==
    /\ t \in Range(queue)
    /\ objs[t].status = "pending"
    /\ DependenciesSatisfied(objs, completed, t)

\* C36 (readiness is monotone): every step leaves completed_tasks as it is
\* or appends to it; a subtask whose dependencies are all satisfied keeps
\* them satisfied; and a selectable pending subtask is selectable after the
\* step unless the step completed it or made it failed.
C36_ReadinessMonotone ==
    [][/\ IsPrefix(completed_tasks, completed_tasks')
       /\ \A t \in AllIds :
             /\ DependenciesSatisfied(task_objs, completed_tasks, t)
                   => DependenciesSatisfied(task_objs', completed_tasks', t)
             /\ SelectableTask(task_objs, task_queue, completed_tasks, t)
                   => \/ SelectableTask(task_objs', task_queue', completed_tasks', t)
                      \/ task_objs'[t].status \in {"completed", "failed"}]_vars

\* a subtask with a dependency was selectable, failed an attempt, and is
\* selectable again, behind two completed subtasks
C36_Witness ==
    /\ pc = "for"
    /\ Len(completed_tasks) >= 2
    /\ \E t \in AllIds :
          /\ task_objs[t].dependencies # {}
          /\ task_objs[t].attempts > 0
          /\ SelectableTask(task_objs, task_queue, completed_tasks, t)

\* the subtasks the current call of process_task queued (the two newest)
RunTasks == {t \in AllIds : t > Cardinality(AllIds) - 2}

RECURSIVE SumAttempts(_)
SumAttempts(ts) ==
    IF ts = {} THEN 0
    ELSE LET t == CHOOSE x \in ts : TRUE IN
         task_objs[t].attempts + SumAttempts(ts \ {t})

\* C37 (results accounting): results changes only by the entry an invocation
\* appends when it returns (and is empty when a call starts); every
\* invocation that returns appends one entry, for the executor and the
\* description it was invoked with, and in the same step mark_task_complete
\* acts on that description; the graph changes in no other dispatch step.
\* While descriptions are pairwise distinct, the number of entries is the
\* number of the call's completed subtasks plus the sum of its subtasks'
\* attempts, and at most max_retries per subtask.
C37_ResultsAccounting ==
    [][/\ pc = "await" =>
             LET d == task_objs[next_task].description
                 i == FindDescription(1, d)
                 st == results'[Len(results')].status
             IN  /\ Len(results') = Len(results) + 1
                 /\ results' = Append(results,
                        ResultEntry(implementation_agents[agent_idx], d, st))
                 /\ i # 0
                 /\ IF st = "success"
                    THEN completed_tasks' = Append(completed_tasks, task_queue[i])
                    ELSE /\ task_objs'[task_queue[i]].attempts =
                               task_objs[task_queue[i]].attempts + 1
                         /\ completed_tasks' = completed_tasks
       /\ pc = "for" => UNCHANGED <<results, task_objs, task_queue, completed_tasks>>
       /\ pc \in {"idle", "returned"} => results' = <<>>
       /\ (DistinctDescriptions /\ pc \in {"for", "await"}) =>
             /\ Len(results) =
                   Cardinality({t \in RunTasks : task_objs[t].status = "completed"})
                   + SumAttempts(RunTasks)
             /\ Len(results) <= Cardinality(RunTasks) * max_retries]_vars

\* a second call with fresh descriptions has used its whole budget: six
\* entries, one subtask completed at its third attempt, one failed
C37_Witness ==
    /\ DistinctDescriptions
    /\ Cardinality(AllIds) = 4
    /\ pc = "for"
    /\ Len(results) = 2 * max_retries
    /\ \E t \in RunTasks : task_objs[t].status = "completed" /\ task_objs[t].attempts = 2
    /\ \E t \in RunTasks : task_objs[t].status = "failed"

\* the dependency-free subtasks inserted before t (Task objects are numbered
\* in insertion order)
EarlierFree(t) ==
    {u \in AllIds : u < t /\ task_objs[u].dependencies = {}
                          /\ task_objs[u].assigned_to = task_objs[t].assigned_to}

\* C38 (head-of-line order): while a dependency-free subtask is dispatched,
\* no dependency-free subtask of its role inserted before it is pending:
\* each of them is completed, or failed with its max_retries attempts used;
\* and a dependency-free subtask leaves the pending state only when none
\* inserted before it is pending.
C38_HeadOfLine ==
    [][/\ (pc' = "await" /\ task_objs'[next_task'].dependencies = {}) =>
             \A u \in EarlierFree(next_task') :
                 \/ task_objs'[u].status = "completed"
                 \/ /\ task_objs'[u].status = "failed"
                    /\ task_objs'[u].attempts >= max_retries
       /\ \A t \in AllIds :
             (/\ task_objs[t].dependencies = {}
              /\ task_objs[t].status = "pending"
              /\ task_objs'[t].status # "pending") =>
                 \A u \in EarlierFree(t) : task_objs[u].status # "pending"]_vars

\* a subtask is attempted for the first time after the one queued before it
\* failed three times in the same call
C38_Witness ==
    /\ pc = "await"
    /\ task_objs[next_task].dependencies = {}
    /\ task_objs[next_task].attempts = 0
    /\ Len(results) = max_retries
    /\ \E u \in EarlierFree(next_task) :
          /\ u \in QueueIds
          /\ task_objs[u].status = "failed"
          /\ task_objs[u].attempts = max_retries

\* C39 (the graph is not reset between calls): the step that starts a call
\* of process_task keeps every existing Task object, completed_tasks and
\* the queued subtasks (failed ones too) as the previous call left them and
\* appends the call's two new pending subtasks behind them, whatever their
\* descriptions (nothing when the Planner step fails); and the counts of a
\* success document cover the subtasks of all calls.
C39_GraphNotReset ==
    [][/\ pc \in {"idle", "returned"} =>
             /\ completed_tasks' = completed_tasks
             /\ \A t \in AllIds : t \in DOMAIN task_objs' /\ task_objs'[t] = task_objs[t]
             /\ IF pc' = "for"
                THEN /\ Len(task_queue') = Len(task_queue) + 2
                     /\ SubSeq(task_queue', 1, Len(task_queue)) = task_queue
                     /\ \E objective \in Objectives :
                           /\ task_objs'[task_queue'[Len(task_queue) + 1]].description
                                 = Description("frontend", objective)
                           /\ task_objs'[task_queue'[Len(task_queue) + 2]].description
                                 = Description("backend", objective)
                     /\ \A i \in (Len(task_queue) + 1)..(Len(task_queue) + 2) :
                           /\ task_queue'[i] \notin AllIds
                           /\ task_objs'[task_queue'[i]].status = "pending"
                           /\ task_objs'[task_queue'[i]].attempts = 0
                ELSE /\ task_queue' = task_queue
                     /\ task_objs' = task_objs
       /\ (pc # "returned" /\ pc' = "returned" /\ result'.status = "success") =>
             /\ result'.project_status.completed_tasks = Len(completed_tasks')
             /\ result'.project_status.failed_tasks =
                   Cardinality({t \in Range(task_queue') : task_objs'[t].status = "failed"})
             /\ result'.project_status.pending_tasks
                   + result'.project_status.completed_tasks
                   + result'.project_status.failed_tasks = Cardinality(DOMAIN task_objs')]_vars

\* a second call for the same objective runs: its two subtasks are queued
\* behind the failed subtask the first call left, which has the description
\* of one of them, and the first call's completed subtask is still there
C39_Witness ==
    /\ pc = "for"
    /\ results = <<>>
    /\ Len(task_queue) = 3
    /\ Len(completed_tasks) = 1
    /\ task_objs[task_queue[1]].status = "failed"
    /\ task_objs[task_queue[1]].description = task_objs[task_queue[2]].description
    /\ task_objs[task_queue[2]].status = "pending"
    /\ task_objs[task_queue[3]].description = task_objs[completed_tasks[1]].description

====
